---- MODULE Spec2Model ----
(***************************************************************************)
(* Model of lib-express-joi-validation-middleware: the functional API of   *)
(* src/src/lib/ValidatorBase.ts (lines 1-261), the error class of          *)
(* src/src/lib/errors/RequestValidationMiddlewareError.ts and the route    *)
(* registrations of the README (src/unnamed/part_000).                     *)
(*                                                                         *)
(* A route registers one pipeline step (one of the five section validators *)
(* or validateAll) with a schema / schema set and an optional options      *)
(* override.  Each request that reaches the step runs the whole handler:   *)
(* it reads the request, calls the engine and calls next().  Everything    *)
(* the handler does to the outside world (engine calls, calls of next) is  *)
(* recorded, in order, in trace.                                           *)
(***************************************************************************)
EXTENDS Integers, Sequences, FiniteSets, TLC

(***************************************************************************)
(* Bounds of the model.                                                    *)
(***************************************************************************)
\* number of requests one registered pipeline step serves in a behaviour
MaxCalls == 2

\* number of section validators registered in a row on one route
MaxChain == 2

\* number of requests it serves when clients repeat a few requests and the
\* outcomes of all of them are kept
MaxRepeats == 3

(***************************************************************************)
(* JavaScript values.                                                      *)
(***************************************************************************)
\* the value undefined: an omitted argument, a missing property, no error
Undefined == [undefined |-> TRUE]

\* object spread { ...a, ...b }: the own properties of a, then those of b;
\* spreading undefined contributes no property
Spread(a, b) ==
  IF b = Undefined THEN a
  ELSE [k \in (DOMAIN a) \cup (DOMAIN b) |-> IF k \in DOMAIN b THEN b[k] ELSE a[k]]

\* JavaScript truthiness of an optional object
Truthy(x) == x # Undefined

(***************************************************************************)
(* The request: the five sections the validators read.                     *)
(***************************************************************************)
\* enumeration order of the sections in getAllValidationErrors
SectionOrder == <<"body", "cookies", "headers", "params", "query">>

SectionNames == {SectionOrder[i] : i \in 1..Len(SectionOrder)}

\* minimum length of the string fields of the example schemas
MinLen == 3

\* own-key order of the section objects used as inputs
FieldOrder == <<"name", "page", "extra">>

\* field values: a string of n characters, or the number such a string of
\* digits converts to
Str(n) == [type |-> "string", len |-> n]

Num(n) == [type |-> "number", len |-> n]

\* section values: a map from the fields that are present to their value, as
\* the framework parses them (every field a string)
vOk    == [name |-> Str(MinLen), page |-> Str(1)]
vExtra == [name |-> Str(MinLen), page |-> Str(1), extra |-> Str(MinLen)]
vBad   == [name |-> Str(MinLen - 1)]

Values == {vOk, vExtra, vBad}

Requests == [SectionNames -> Values]

(***************************************************************************)
(* The engine: Joi.ObjectSchema.validate(value, options).                  *)
(***************************************************************************)
\* Joi.object({ name: Joi.string().min(3).required(),
\*              page: Joi.number().required() })
GoodSchema == [keys |-> <<"name", "page">>, numbers |-> {"page"}, malformed |-> FALSE]

\* a schema whose validate() raises instead of returning a verdict
BadSchema == [keys |-> <<>>, numbers |-> {}, malformed |-> TRUE]

Schemas == {GoodSchema, BadSchema}

\* the engine's own defaults for the two switches
JoiDefaults == [abortEarly |-> TRUE, allowUnknown |-> FALSE]

\* subsequence of s, from the i-th element on, of the elements in keep
RECURSIVE SelectFrom(_, _, _)
SelectFrom(s, i, keep) ==
  IF i > Len(s) THEN <<>>
  ELSE (IF s[i] \in keep THEN <<s[i]>> ELSE <<>>) \o SelectFrom(s, i + 1, keep)

\* violations of the declared keys, in schema order
RECURSIVE KeyViolations(_, _, _, _)
KeyViolations(keys, numbers, i, value) ==
  IF i > Len(keys) THEN <<>>
  ELSE LET k == keys[i]
           here == IF k \notin DOMAIN value
                     THEN <<[path |-> k, type |-> "any.required"]>>
                   ELSE IF k \in numbers
                     THEN <<>>
                   ELSE IF value[k].type # "string"
                     THEN <<[path |-> k, type |-> "string.base"]>>
                   ELSE IF value[k].len < MinLen
                     THEN <<[path |-> k, type |-> "string.min"]>>
                   ELSE <<>>
       IN here \o KeyViolations(keys, numbers, i + 1, value)

\* the value the engine returns: the fields declared as numbers converted
\* from their string form
Converted(schema, value) ==
  [f \in DOMAIN value |->
     IF f \in schema.numbers THEN Num(value[f].len) ELSE value[f]]

\* violations for the keys of the value that the schema does not declare
UnknownViolations(keys, value, allowUnknown) ==
  IF allowUnknown THEN <<>>
  ELSE LET declared == {keys[i] : i \in 1..Len(keys)}
           unknown == SelectFrom(FieldOrder, 1, (DOMAIN value) \ declared)
       IN [i \in 1..Len(unknown) |-> [path |-> unknown[i], type |-> "object.unknown"]]

\* every violation of value against schema, in the order the engine finds them
AllViolations(schema, value, allowUnknown) ==
  KeyViolations(schema.keys, schema.numbers, 1, value)
    \o UnknownViolations(schema.keys, value, allowUnknown)

\* schema.validate(value, options): threw when the engine faults, else the
\* result object { error, value }, of which the adapter reads .error
validate(schema, value, options) ==
  IF schema.malformed THEN [threw |-> TRUE, error |-> Undefined, value |-> Undefined]
  ELSE LET prefs == Spread(JoiDefaults, options)
           all == AllViolations(schema, value, prefs.allowUnknown)
           details == IF prefs.abortEarly /\ Len(all) > 1 THEN SubSeq(all, 1, 1) ELSE all
       IN [threw |-> FALSE,
           error |-> IF details = <<>> THEN Undefined ELSE [details |-> details],
           value |-> Converted(schema, value)]

(***************************************************************************)
(* The error handed to the framework's error channel.                      *)
(***************************************************************************)
\* ErrorSource.VALIDATION of ../enums/errorSource
ErrorSourceVALIDATION == "validation"

\* HttpStatusCode.BAD_REQUEST of ../enums/httpStatusCode
HttpStatusCodeBAD_REQUEST == 400

\* new BaseError(source, message) of ./base_error
BaseError(source, message) == [category |-> source, message |-> message]

\* variant: the constructor does not store the payload
RequestValidationMiddlewareErrorDropsPayload(errors) ==
  Spread(BaseError(ErrorSourceVALIDATION, "Bad Request"),
         [statusCode |-> HttpStatusCodeBAD_REQUEST, errors |-> Undefined])

\* new RequestValidationMiddlewareError(errors)
RequestValidationMiddlewareError(errors) ==
  Spread(BaseError(ErrorSourceVALIDATION, "Bad Request"),
         [statusCode |-> HttpStatusCodeBAD_REQUEST, errors |-> errors])

(***************************************************************************)
(* What a handler does, in order: calls of the engine and calls of next.   *)
(***************************************************************************)
\* the handler read request[section] and called schema.validate on it with
\* options; result is the engine's result object
ValidateEvent(section, options, result) ==
  [type |-> "validate", section |-> section, options |-> options,
   threw |-> result.threw, arg |-> result.error]

\* the handler called next(arg); next() is next(undefined)
NextEvent(arg) ==
  [type |-> "next", section |-> "-", options |-> Undefined,
   threw |-> FALSE, arg |-> arg]

\* the handler ran to its end
Returned(events) == [pc |-> "returned", trace |-> events]

\* an exception left the handler
Thrown(events) == [pc |-> "thrown", trace |-> events]

(***************************************************************************)
(* ValidatorBase.ts: the five section validators.                          *)
(***************************************************************************)
\* variant: the baseline also permits undeclared fields
commonValidatorOptionsAllowUnknown == [abortEarly |-> FALSE, allowUnknown |-> TRUE]

commonValidatorOptions == [abortEarly |-> FALSE]

getBodyValidationErrors(validatorSchema, body, joiValidationOptions) ==
  validate(validatorSchema, body, joiValidationOptions)

\* variant: next(error) without return, so the handler falls through to next()
validateBodyStepFallsThrough(validatorSchema, joiValidationOptions, request) ==
  LET body == request.body
      options == Spread(commonValidatorOptions, joiValidationOptions)
      result == getBodyValidationErrors(validatorSchema, body, options)
      called == <<ValidateEvent("body", options, result)>>
      validationErrors == result.error
      err == [body |-> validationErrors]
  IN IF result.threw THEN Thrown(called)
     ELSE IF Truthy(validationErrors)
       THEN Returned(called \o <<NextEvent(RequestValidationMiddlewareError(err)),
                                 NextEvent(Undefined)>>)
     ELSE Returned(called \o <<NextEvent(Undefined)>>)

\* the pipeline step validateBody(validatorSchema, joiValidationOptions)
\* applied to request
validateBodyStep(validatorSchema, joiValidationOptions, request) ==
  LET body == request.body
      options == Spread(commonValidatorOptions, joiValidationOptions)
      result == getBodyValidationErrors(validatorSchema, body, options)
      called == <<ValidateEvent("body", options, result)>>
      validationErrors == result.error
      err == [body |-> validationErrors]
  IN IF result.threw THEN Thrown(called)
     ELSE IF Truthy(validationErrors)
       THEN Returned(called \o <<NextEvent(RequestValidationMiddlewareError(err))>>)
     ELSE Returned(called \o <<NextEvent(Undefined)>>)

getCookiesValidationErrors(validatorSchema, cookies, joiValidationOptions) ==
  validate(validatorSchema, cookies, joiValidationOptions)

\* variant: the error is stored under the key of the validator it was copied from
validateCookiesStepKeyedBody(validatorSchema, joiValidationOptions, request) ==
  LET cookies == request.cookies
      options == Spread(commonValidatorOptions, joiValidationOptions)
      result == getCookiesValidationErrors(validatorSchema, cookies, options)
      called == <<ValidateEvent("cookies", options, result)>>
      validationErrors == result.error
      err == [body |-> validationErrors]
  IN IF result.threw THEN Thrown(called)
     ELSE IF Truthy(validationErrors)
       THEN Returned(called \o <<NextEvent(RequestValidationMiddlewareError(err))>>)
     ELSE Returned(called \o <<NextEvent(Undefined)>>)

validateCookiesStep(validatorSchema, joiValidationOptions, request) ==
  LET cookies == request.cookies
      options == Spread(commonValidatorOptions, joiValidationOptions)
      result == getCookiesValidationErrors(validatorSchema, cookies, options)
      called == <<ValidateEvent("cookies", options, result)>>
      validationErrors == result.error
      err == [cookies |-> validationErrors]
  IN IF result.threw THEN Thrown(called)
     ELSE IF Truthy(validationErrors)
       THEN Returned(called \o <<NextEvent(RequestValidationMiddlewareError(err))>>)
     ELSE Returned(called \o <<NextEvent(Undefined)>>)

getHeadersValidationErrors(validatorSchema, headers, joiValidationOptions) ==
  validate(validatorSchema, headers, joiValidationOptions)

\* variant: next(error) without return, so the handler goes on to next()
validateHeadersStepFallsThrough(validatorSchema, joiValidationOptions, request) ==
  LET headers == request.headers
      options == Spread(commonValidatorOptions, joiValidationOptions)
      result == getHeadersValidationErrors(validatorSchema, headers, options)
      called == <<ValidateEvent("headers", options, result)>>
      validationErrors == result.error
      err == [headers |-> validationErrors]
  IN IF result.threw THEN Thrown(called)
     ELSE IF Truthy(validationErrors)
       THEN Returned(called \o <<NextEvent(RequestValidationMiddlewareError(err)),
                                 NextEvent(Undefined)>>)
     ELSE Returned(called \o <<NextEvent(Undefined)>>)

validateHeadersStep(validatorSchema, joiValidationOptions, request) ==
  LET headers == request.headers
      options == Spread(commonValidatorOptions, joiValidationOptions)
      result == getHeadersValidationErrors(validatorSchema, headers, options)
      called == <<ValidateEvent("headers", options, result)>>
      validationErrors == result.error
      err == [headers |-> validationErrors]
  IN IF result.threw THEN Thrown(called)
     ELSE IF Truthy(validationErrors)
       THEN Returned(called \o <<NextEvent(RequestValidationMiddlewareError(err))>>)
     ELSE Returned(called \o <<NextEvent(Undefined)>>)

getParamsValidationErrors(validatorSchema, params, joiValidationOptions) ==
  validate(validatorSchema, params, joiValidationOptions)

\* variant: the handler destructures query instead of params
validateParamsStepReadsQuery(validatorSchema, joiValidationOptions, request) ==
  LET params == request.query
      options == Spread(commonValidatorOptions, joiValidationOptions)
      result == getParamsValidationErrors(validatorSchema, params, options)
      called == <<ValidateEvent("params", options, result)>>
      validationErrors == result.error
      err == [params |-> validationErrors]
  IN IF result.threw THEN Thrown(called)
     ELSE IF Truthy(validationErrors)
       THEN Returned(called \o <<NextEvent(RequestValidationMiddlewareError(err))>>)
     ELSE Returned(called \o <<NextEvent(Undefined)>>)

validateParamsStep(validatorSchema, joiValidationOptions, request) ==
  LET params == request.params
      options == Spread(commonValidatorOptions, joiValidationOptions)
      result == getParamsValidationErrors(validatorSchema, params, options)
      called == <<ValidateEvent("params", options, result)>>
      validationErrors == result.error
      err == [params |-> validationErrors]
  IN IF result.threw THEN Thrown(called)
     ELSE IF Truthy(validationErrors)
       THEN Returned(called \o <<NextEvent(RequestValidationMiddlewareError(err))>>)
     ELSE Returned(called \o <<NextEvent(Undefined)>>)

getQueryValidationErrors(validatorSchema, query, joiValidationOptions) ==
  validate(validatorSchema, query, joiValidationOptions)

\* variant: the error is built from the diagnostics, not from err
validateQueryStepRawDiagnostics(validatorSchema, joiValidationOptions, request) ==
  LET query == request.query
      options == Spread(commonValidatorOptions, joiValidationOptions)
      result == getQueryValidationErrors(validatorSchema, query, options)
      called == <<ValidateEvent("query", options, result)>>
      validationErrors == result.error
  IN IF result.threw THEN Thrown(called)
     ELSE IF Truthy(validationErrors)
       THEN Returned(called \o <<NextEvent(RequestValidationMiddlewareError(validationErrors))>>)
     ELSE Returned(called \o <<NextEvent(Undefined)>>)

validateQueryStep(validatorSchema, joiValidationOptions, request) ==
  LET query == request.query
      options == Spread(commonValidatorOptions, joiValidationOptions)
      result == getQueryValidationErrors(validatorSchema, query, options)
      called == <<ValidateEvent("query", options, result)>>
      validationErrors == result.error
      err == [query |-> validationErrors]
  IN IF result.threw THEN Thrown(called)
     ELSE IF Truthy(validationErrors)
       THEN Returned(called \o <<NextEvent(RequestValidationMiddlewareError(err))>>)
     ELSE Returned(called \o <<NextEvent(Undefined)>>)

(***************************************************************************)
(* ValidatorBase.ts: validateAll.                                          *)
(***************************************************************************)
\* variant: the cookies initialiser validates request.body
RECURSIVE EvalSectionsCookiesReadBody(_, _, _, _, _, _)
EvalSectionsCookiesReadBody(validatorSchema, request, joiValidationOptions, i, response, called) ==
  IF i > Len(SectionOrder)
    THEN [threw |-> FALSE, response |-> response, called |-> called]
  ELSE LET s == SectionOrder[i]
           field == IF s = "cookies" THEN "body" ELSE s
       IN IF s \notin DOMAIN validatorSchema
            THEN EvalSectionsCookiesReadBody(validatorSchema, request, joiValidationOptions,
                                             i + 1, [response EXCEPT ![s] = Undefined], called)
          ELSE LET result == validate(validatorSchema[s], request[field], joiValidationOptions)
                   now == Append(called, ValidateEvent(s, joiValidationOptions, result))
               IN IF result.threw
                    THEN [threw |-> TRUE, response |-> response, called |-> now]
                  ELSE EvalSectionsCookiesReadBody(validatorSchema, request,
                                                   joiValidationOptions, i + 1,
                                                   [response EXCEPT ![s] = result.error], now)

\* variant: evaluation stops at the first section that reports an error
RECURSIVE EvalSectionsStopAtFirstError(_, _, _, _, _, _)
EvalSectionsStopAtFirstError(validatorSchema, request, joiValidationOptions, i, response, called) ==
  IF i > Len(SectionOrder)
    THEN [threw |-> FALSE, response |-> response, called |-> called]
  ELSE LET s == SectionOrder[i]
       IN IF s \notin DOMAIN validatorSchema
            THEN EvalSectionsStopAtFirstError(validatorSchema, request, joiValidationOptions,
                                              i + 1, [response EXCEPT ![s] = Undefined], called)
          ELSE LET result == validate(validatorSchema[s], request[s], joiValidationOptions)
                   now == Append(called, ValidateEvent(s, joiValidationOptions, result))
               IN IF result.threw
                    THEN [threw |-> TRUE, response |-> response, called |-> now]
                  ELSE IF Truthy(result.error)
                    THEN [threw |-> FALSE, response |-> [response EXCEPT ![s] = result.error],
                          called |-> now]
                  ELSE EvalSectionsStopAtFirstError(validatorSchema, request,
                                                    joiValidationOptions, i + 1,
                                                    [response EXCEPT ![s] = result.error], now)

\* the property initialisers of the validateAllResponse literal, evaluated
\* in source order from the i-th on: schema?.validate(request[s], options)
\* .error for each section s.  A fault in one initialiser abandons the rest.
RECURSIVE EvalSections(_, _, _, _, _, _)
EvalSections(validatorSchema, request, joiValidationOptions, i, response, called) ==
  IF i > Len(SectionOrder)
    THEN [threw |-> FALSE, response |-> response, called |-> called]
  ELSE LET s == SectionOrder[i]
       IN IF s \notin DOMAIN validatorSchema
            THEN EvalSections(validatorSchema, request, joiValidationOptions, i + 1,
                              [response EXCEPT ![s] = Undefined], called)
          ELSE LET result == validate(validatorSchema[s], request[s], joiValidationOptions)
                   now == Append(called, ValidateEvent(s, joiValidationOptions, result))
               IN IF result.threw
                    THEN [threw |-> TRUE, response |-> response, called |-> now]
                  ELSE EvalSections(validatorSchema, request, joiValidationOptions, i + 1,
                                    [response EXCEPT ![s] = result.error], now)

\* variant: the truthiness test leaves out the last section
getAllValidationErrorsOmitsQuery(validatorSchema, request, joiValidationOptions) ==
  LET built == EvalSections(validatorSchema, request, joiValidationOptions, 1,
                            [s \in SectionNames |-> Undefined], <<>>)
      validateAllResponse == built.response
  IN IF built.threw THEN [threw |-> TRUE, value |-> Undefined, called |-> built.called]
     ELSE IF Truthy(validateAllResponse.body)
             \/ Truthy(validateAllResponse.cookies)
             \/ Truthy(validateAllResponse.headers)
             \/ Truthy(validateAllResponse.params)
       THEN [threw |-> FALSE, value |-> validateAllResponse, called |-> built.called]
     ELSE [threw |-> FALSE, value |-> Undefined, called |-> built.called]

\* getAllValidationErrors: the response when some section has an error,
\* else undefined (value), with the engine calls made (called)
getAllValidationErrors(validatorSchema, request, joiValidationOptions) ==
  LET built == EvalSections(validatorSchema, request, joiValidationOptions, 1,
                            [s \in SectionNames |-> Undefined], <<>>)
      validateAllResponse == built.response
  IN IF built.threw THEN [threw |-> TRUE, value |-> Undefined, called |-> built.called]
     ELSE IF Truthy(validateAllResponse.body)
             \/ Truthy(validateAllResponse.cookies)
             \/ Truthy(validateAllResponse.headers)
             \/ Truthy(validateAllResponse.params)
             \/ Truthy(validateAllResponse.query)
       THEN [threw |-> FALSE, value |-> validateAllResponse, called |-> built.called]
     ELSE [threw |-> FALSE, value |-> Undefined, called |-> built.called]

\* variant: the handler catches the engine's fault and reports it as a
\* validation error
validateAllStepCatchesFault(validatorSchema, joiValidationOptions, request) ==
  LET got == getAllValidationErrors(validatorSchema, request, joiValidationOptions)
      validateAllResponse == got.value
  IN IF got.threw
       THEN Returned(got.called \o <<NextEvent(RequestValidationMiddlewareError(Undefined))>>)
     ELSE IF Truthy(validateAllResponse)
       THEN Returned(got.called
                       \o <<NextEvent(RequestValidationMiddlewareError(validateAllResponse))>>)
     ELSE Returned(got.called \o <<NextEvent(Undefined)>>)

\* the pipeline step validateAll(validatorSchema, joiValidationOptions)
\* applied to request
validateAllStep(validatorSchema, joiValidationOptions, request) ==
  LET got == getAllValidationErrors(validatorSchema, request, joiValidationOptions)
      validateAllResponse == got.value
  IN IF got.threw THEN Thrown(got.called)
     ELSE IF Truthy(validateAllResponse)
       THEN Returned(got.called
                       \o <<NextEvent(RequestValidationMiddlewareError(validateAllResponse))>>)
     ELSE Returned(got.called \o <<NextEvent(Undefined)>>)

(***************************************************************************)
(* The class RequestValidator: the same validators as methods of an        *)
(* instance that holds options given at construction.                      *)
(***************************************************************************)
\* new RequestValidator(joiValidationOptions): the fields of the instance
RequestValidator(joiValidationOptions) ==
  LET defaults == [abortEarly |-> FALSE]
  IN [defaultValidationOptions |-> defaults,
      commonValidationOptions |->
        IF Truthy(joiValidationOptions)
          THEN Spread(defaults, joiValidationOptions)
        ELSE defaults]

\* this.validateBody(validatorSchema, bodyValidationOptions) applied to request
RequestValidatorValidateBodyStep(this, validatorSchema, bodyValidationOptions, request) ==
  LET body == request.body
      options == Spread(this.commonValidationOptions, bodyValidationOptions)
      result == validate(validatorSchema, body, options)
      called == <<ValidateEvent("body", options, result)>>
      validationErrors == result.error
      err == [body |-> validationErrors]
  IN IF result.threw THEN Thrown(called)
     ELSE IF Truthy(validationErrors)
       THEN Returned(called \o <<NextEvent(RequestValidationMiddlewareError(err))>>)
     ELSE Returned(called \o <<NextEvent(Undefined)>>)

\* this.validateCookies(validatorSchema, cookiesValidationOptions) applied to request
RequestValidatorValidateCookiesStep(this, validatorSchema, cookiesValidationOptions, request) ==
  LET cookies == request.cookies
      options == Spread(this.commonValidationOptions, cookiesValidationOptions)
      result == validate(validatorSchema, cookies, options)
      called == <<ValidateEvent("cookies", options, result)>>
      validationErrors == result.error
      err == [cookies |-> validationErrors]
  IN IF result.threw THEN Thrown(called)
     ELSE IF Truthy(validationErrors)
       THEN Returned(called \o <<NextEvent(RequestValidationMiddlewareError(err))>>)
     ELSE Returned(called \o <<NextEvent(Undefined)>>)

\* this.validateQuery(validatorSchema, queryValidationOptions) applied to request
RequestValidatorValidateQueryStep(this, validatorSchema, queryValidationOptions, request) ==
  LET query == request.query
      options == Spread(this.commonValidationOptions, queryValidationOptions)
      result == validate(validatorSchema, query, options)
      called == <<ValidateEvent("query", options, result)>>
      validationErrors == result.error
      err == [query |-> validationErrors]
  IN IF result.threw THEN Thrown(called)
     ELSE IF Truthy(validationErrors)
       THEN Returned(called \o <<NextEvent(RequestValidationMiddlewareError(err))>>)
     ELSE Returned(called \o <<NextEvent(Undefined)>>)

\* this.validateParams(validatorSchema, paramsValidationOptions) applied to request
RequestValidatorValidateParamsStep(this, validatorSchema, paramsValidationOptions, request) ==
  LET params == request.params
      options == Spread(this.commonValidationOptions, paramsValidationOptions)
      result == validate(validatorSchema, params, options)
      called == <<ValidateEvent("params", options, result)>>
      validationErrors == result.error
      err == [params |-> validationErrors]
  IN IF result.threw THEN Thrown(called)
     ELSE IF Truthy(validationErrors)
       THEN Returned(called \o <<NextEvent(RequestValidationMiddlewareError(err))>>)
     ELSE Returned(called \o <<NextEvent(Undefined)>>)

\* this.validateHeaders(validatorSchema, headersValidationOptions) applied to request
RequestValidatorValidateHeadersStep(this, validatorSchema, headersValidationOptions, request) ==
  LET headers == request.headers
      options == Spread(this.commonValidationOptions, headersValidationOptions)
      result == validate(validatorSchema, headers, options)
      called == <<ValidateEvent("headers", options, result)>>
      validationErrors == result.error
      err == [headers |-> validationErrors]
  IN IF result.threw THEN Thrown(called)
     ELSE IF Truthy(validationErrors)
       THEN Returned(called \o <<NextEvent(RequestValidationMiddlewareError(err))>>)
     ELSE Returned(called \o <<NextEvent(Undefined)>>)

\* this.getAllValidationErrors(validatorSchema, request, allValidationOptions)
RequestValidatorGetAllValidationErrors(validatorSchema, request, allValidationOptions) ==
  LET built == EvalSections(validatorSchema, request, allValidationOptions, 1,
                            [s \in SectionNames |-> Undefined], <<>>)
      validateAllResponse == built.response
  IN IF built.threw THEN [threw |-> TRUE, value |-> Undefined, called |-> built.called]
     ELSE IF Truthy(validateAllResponse.body)
             \/ Truthy(validateAllResponse.cookies)
             \/ Truthy(validateAllResponse.headers)
             \/ Truthy(validateAllResponse.params)
             \/ Truthy(validateAllResponse.query)
       THEN [threw |-> FALSE, value |-> validateAllResponse, called |-> built.called]
     ELSE [threw |-> FALSE, value |-> Undefined, called |-> built.called]

\* variant: the options of the factory reach the engine without the
\* options of the instance
RequestValidatorValidateAllStepUnmerged(this, validatorSchema, allValidationOptions, request) ==
  LET got == RequestValidatorGetAllValidationErrors(validatorSchema, request,
                                                    allValidationOptions)
      validateAllResponse == got.value
  IN IF got.threw THEN Thrown(got.called)
     ELSE IF Truthy(validateAllResponse)
       THEN Returned(got.called
                       \o <<NextEvent(RequestValidationMiddlewareError(validateAllResponse))>>)
     ELSE Returned(got.called \o <<NextEvent(Undefined)>>)

\* this.validateAll(validatorSchema, allValidationOptions) applied to request
RequestValidatorValidateAllStep(this, validatorSchema, allValidationOptions, request) ==
  LET got == RequestValidatorGetAllValidationErrors(
               validatorSchema, request,
               Spread(this.commonValidationOptions, allValidationOptions))
      validateAllResponse == got.value
  IN IF got.threw THEN Thrown(got.called)
     ELSE IF Truthy(validateAllResponse)
       THEN Returned(got.called
                       \o <<NextEvent(RequestValidationMiddlewareError(validateAllResponse))>>)
     ELSE Returned(got.called \o <<NextEvent(Undefined)>>)

(***************************************************************************)
(* The state: a route, the requests it serves and what its handlers did.   *)
(***************************************************************************)
VARIABLES
  pc,                    \* where the current request is: "unregistered" and
                         \* "idle" (no request), "arrived" (at a step whose
                         \* handler has not run), "returned" / "thrown" (the
                         \* handler ended), "handled" / "failed" (answered)
  kind,                  \* which factory built the step: a section name or "all"
  validatorSchema,       \* the factory's first argument
  joiValidationOptions,  \* the factory's second argument, or undefined
  req,                   \* the request being served
  trace,                 \* what the handlers did for req, in order
  calls,                 \* requests received so far
  only,                  \* the requests clients are limited to; {} when any
  served,                \* the outcomes of the requests served before req
  route,                 \* the steps of a route registered with several
  at,                    \* the position in route of the step req is at
  defaultValidationOptions,  \* RequestValidator instance field
  commonValidationOptions,   \* RequestValidator instance field
  constructedWith            \* the argument the constructor was called with

\* the registered step
stepVars == <<kind, validatorSchema, joiValidationOptions>>

\* the RequestValidator instance
instanceVars == <<defaultValidationOptions, commonValidationOptions, constructedWith>>

\* the route's list of steps and the position in it
chainVars == <<route, at>>

vars == <<pc, kind, validatorSchema, joiValidationOptions, req, trace, calls,
          only, served, route, at,
          defaultValidationOptions, commonValidationOptions, constructedWith>>

(***************************************************************************)
(* The route: one registered pipeline step and the requests it serves.     *)
(***************************************************************************)
\* the option overrides routes are registered with
OptionOverrides ==
  {Undefined,
   [allowUnknown |-> TRUE],
   [abortEarly |-> TRUE],
   [abortEarly |-> FALSE, allowUnknown |-> TRUE]}

\* the schema sets routes are registered with: any subset of the sections,
\* at most one of them with a schema that faults
SchemaSets ==
  {ss \in UNION {[D -> Schemas] : D \in SUBSET SectionNames} :
     Cardinality({s \in DOMAIN ss : ss[s] = BadSchema}) <= 1}

\* nothing is registered and no request was received
Blank ==
  /\ pc = "unregistered"
  /\ kind = "none"
  /\ validatorSchema = Undefined
  /\ joiValidationOptions = Undefined
  /\ req = Undefined
  /\ trace = <<>>
  /\ calls = 0
  /\ served = <<>>
  /\ route = <<>>
  /\ at = 0
  /\ defaultValidationOptions = Undefined
  /\ commonValidationOptions = Undefined
  /\ constructedWith = Undefined

\* the requests clients send
Pool == IF only = {} THEN Requests ELSE only

\* the number of requests the route receives in a behaviour
Quota == IF only = {} THEN MaxCalls ELSE MaxRepeats

Init ==
  /\ Blank
  /\ only = {}

\* app.get(path, [validateX(schema, options), handler]) for a section validator
RegisterSection ==
  /\ pc = "unregistered"
  /\ \E s \in SectionNames, schema \in Schemas, options \in OptionOverrides :
       /\ kind' = s
       /\ validatorSchema' = schema
       /\ joiValidationOptions' = options
  /\ pc' = "idle"
  /\ UNCHANGED <<req, trace, calls, only, served, chainVars, instanceVars>>

\* app.get(path, [validateAll(validateAllSchema, options), handler])
RegisterAll ==
  /\ pc = "unregistered"
  /\ \E schemaSet \in SchemaSets, options \in OptionOverrides :
       /\ kind' = "all"
       /\ validatorSchema' = schemaSet
       /\ joiValidationOptions' = options
  /\ pc' = "idle"
  /\ UNCHANGED <<req, trace, calls, only, served, chainVars, instanceVars>>

\* the framework receives a request for the route and hands it to the
\* route's first step
Arrive ==
  /\ pc = "idle"
  /\ calls < Quota
  /\ \E request \in Pool : req' = request
  /\ trace' = <<>>
  /\ pc' = "arrived"
  /\ calls' = calls + 1
  /\ UNCHANGED <<stepVars, only, served, chainVars, instanceVars>>

\* variant: a section validator assigns the engine's converted value to the
\* section it validated
ServeWritesValueBack(out) ==
  /\ trace' = trace \o out.trace
  /\ pc' = out.pc
  /\ req' = IF kind \in SectionNames /\ out.pc = "returned"
              THEN [req EXCEPT ![kind] =
                      validate(validatorSchema, req[kind], joiValidationOptions).value]
            ELSE req
  /\ UNCHANGED <<stepVars, calls, only, served, chainVars, instanceVars>>

\* the handler of the step the request is at runs to its end with outcome
\* out; it reads req and writes nothing but its calls
Serve(out) ==
  /\ trace' = trace \o out.trace
  /\ pc' = out.pc
  /\ UNCHANGED <<req, stepVars, calls, only, served, chainVars, instanceVars>>

validateBody ==
  /\ pc = "arrived" /\ kind = "body" /\ commonValidationOptions = Undefined
  /\ Serve(validateBodyStep(validatorSchema, joiValidationOptions, req))

validateCookies ==
  /\ pc = "arrived" /\ kind = "cookies" /\ commonValidationOptions = Undefined
  /\ Serve(validateCookiesStep(validatorSchema, joiValidationOptions, req))

validateHeaders ==
  /\ pc = "arrived" /\ kind = "headers" /\ commonValidationOptions = Undefined
  /\ Serve(validateHeadersStep(validatorSchema, joiValidationOptions, req))

validateParams ==
  /\ pc = "arrived" /\ kind = "params" /\ commonValidationOptions = Undefined
  /\ Serve(validateParamsStep(validatorSchema, joiValidationOptions, req))

\* variant: err is kept outside the handler and is not reset, so that a
\* failure of the previous request is reported for this one too
validateQueryKeepsLastError ==
  /\ pc = "arrived" /\ kind = "query" /\ commonValidationOptions = Undefined
  /\ Serve(IF /\ served # <<>>
              /\ served[Len(served)].pc = "returned"
              /\ served[Len(served)].trace[Len(served[Len(served)].trace)].arg # Undefined
             THEN Returned(served[Len(served)].trace)
           ELSE validateQueryStep(validatorSchema, joiValidationOptions, req))

validateQuery ==
  /\ pc = "arrived" /\ kind = "query" /\ commonValidationOptions = Undefined
  /\ Serve(validateQueryStep(validatorSchema, joiValidationOptions, req))

\* variant: the request is kept outside the handler, and the handler reads
\* the one of the request last put in flight
validateAllSharesRequest ==
  /\ pc = "arrived" /\ kind = "all" /\ commonValidationOptions = Undefined
  /\ Serve(validateAllStep(validatorSchema, joiValidationOptions,
                           IF served # <<>> /\ served[Len(served)].open
                             THEN served[Len(served)].req
                           ELSE req))

validateAll ==
  /\ pc = "arrived" /\ kind = "all" /\ commonValidationOptions = Undefined
  /\ Serve(validateAllStep(validatorSchema, joiValidationOptions, req))

\* the framework is done with the request (route handler, or error handler)
\* and the step is ready for the next one
Finish ==
  /\ pc \in {"returned", "thrown"}
  /\ pc' = "idle"
  /\ req' = Undefined
  /\ trace' = <<>>
  /\ UNCHANGED <<stepVars, calls, only, served, chainVars, instanceVars>>

Next ==
  \/ RegisterSection
  \/ RegisterAll
  \/ Arrive
  \/ validateBody
  \/ validateCookies
  \/ validateHeaders
  \/ validateParams
  \/ validateQuery
  \/ validateAll
  \/ Finish

Spec == Init /\ [][Next]_vars

TypeOK ==
  /\ pc \in {"unregistered", "idle", "arrived", "returned", "thrown", "handled", "failed"}
  /\ kind \in SectionNames \cup {"none", "all"}
  /\ calls \in 0..Quota

(***************************************************************************)
(* The same route serving requests that recur and overlap: the response of *)
(* a request may still be pending when the next request is served, and the *)
(* outcome of every request served is kept.                                *)
(***************************************************************************)
\* the few requests clients repeat: an invalid body, with a valid or an
\* invalid query
RepeatRequests ==
  {r \in Requests :
     /\ r.body = vBad
     /\ r.query \in {vOk, vBad}
     /\ r.cookies = vOk /\ r.headers = vOk /\ r.params = vOk}

InitRepeat ==
  /\ Blank
  /\ only = RepeatRequests

\* the requests served before that are still in flight
InFlight == {i \in 1..Len(served) : served[i].open}

\* the handler has ended for req; the rest of its pipeline (route handler or
\* error handler, and the response) is pending while the framework takes
\* the next request
Await ==
  /\ pc \in {"returned", "thrown"}
  /\ served' = Append(served, [req |-> req, pc |-> pc, trace |-> trace,
                                open |-> TRUE, alone |-> InFlight = {}])
  /\ pc' = "idle"
  /\ req' = Undefined
  /\ trace' = <<>>
  /\ UNCHANGED <<stepVars, calls, only, chainVars, instanceVars>>

\* the response of the request longest in flight is sent
Complete ==
  /\ \E i \in InFlight :
       /\ \A j \in InFlight : i <= j
       /\ served' = [served EXCEPT ![i].open = FALSE]
  /\ UNCHANGED <<pc, req, trace, stepVars, calls, only, chainVars, instanceVars>>

NextRepeat ==
  \/ RegisterSection
  \/ RegisterAll
  \/ Arrive
  \/ validateBody
  \/ validateCookies
  \/ validateHeaders
  \/ validateParams
  \/ validateQuery
  \/ validateAll
  \/ Await
  \/ Complete

SpecRepeat == InitRepeat /\ [][NextRepeat]_vars

(***************************************************************************)
(* README, "Validation Ordering": section validators registered in a row   *)
(* on one route, followed by the route handler.  The framework runs the    *)
(* steps in order; next() passes the request to the following step and     *)
(* next(error), or an exception, passes it to the error handler.           *)
(***************************************************************************)
\* the requests clients send to such a route: each section valid or not
ChainRequests == {r \in Requests : \A s \in SectionNames : r[s] \in {vOk, vBad}}

\* validateX(schema), for one section X
ChainSteps == [kind : SectionNames, schema : Schemas, options : {Undefined}]

\* the validators of a route: each section at most once, in any order
Chains ==
  {c \in UNION {[1..n -> ChainSteps] : n \in 1..MaxChain} :
     \A i, j \in DOMAIN c : i # j => c[i].kind # c[j].kind}

\* the route handler ran
HandlerEvent ==
  [type |-> "handler", section |-> "-", options |-> Undefined,
   threw |-> FALSE, arg |-> Undefined]

\* the framework's error handler received arg
ErrorHandlerEvent(arg) ==
  [type |-> "error-handler", section |-> "-", options |-> Undefined,
   threw |-> FALSE, arg |-> arg]

InitChain ==
  /\ Blank
  /\ only = ChainRequests

\* app.get(path, [validator, ..., routeHandler])
RegisterChain ==
  /\ pc = "unregistered"
  /\ \E chain \in Chains :
       /\ route' = chain
       /\ kind' = chain[1].kind
       /\ validatorSchema' = chain[1].schema
       /\ joiValidationOptions' = chain[1].options
  /\ at' = 1
  /\ pc' = "idle"
  /\ UNCHANGED <<req, trace, calls, only, served, instanceVars>>

\* the step called next(): the framework passes the request to the
\* validator that follows
Dispatch ==
  /\ pc = "returned"
  /\ trace[Len(trace)].type = "next" /\ trace[Len(trace)].arg = Undefined
  /\ at < Len(route)
  /\ at' = at + 1
  /\ kind' = route[at + 1].kind
  /\ validatorSchema' = route[at + 1].schema
  /\ joiValidationOptions' = route[at + 1].options
  /\ pc' = "arrived"
  /\ UNCHANGED <<req, trace, calls, only, served, route, instanceVars>>

\* the last validator called next(): the route handler runs
RouteHandler ==
  /\ pc = "returned"
  /\ trace[Len(trace)].type = "next" /\ trace[Len(trace)].arg = Undefined
  /\ at = Len(route)
  /\ trace' = Append(trace, HandlerEvent)
  /\ pc' = "handled"
  /\ UNCHANGED <<req, stepVars, calls, only, served, chainVars, instanceVars>>

\* the step called next(error), or threw: the error handler runs
ErrorHandler ==
  /\ \/ /\ pc = "returned"
        /\ \E i \in 1..Len(trace) :
             /\ trace[i].type = "next" /\ trace[i].arg # Undefined
             /\ trace' = Append(trace, ErrorHandlerEvent(trace[i].arg))
     \/ /\ pc = "thrown"
        /\ trace' = Append(trace, ErrorHandlerEvent(Undefined))
  /\ pc' = "failed"
  /\ UNCHANGED <<req, stepVars, calls, only, served, chainVars, instanceVars>>

\* the response is sent; the route takes the next request at its first step
Respond ==
  /\ pc \in {"handled", "failed"}
  /\ pc' = "idle"
  /\ req' = Undefined
  /\ trace' = <<>>
  /\ at' = 1
  /\ kind' = route[1].kind
  /\ validatorSchema' = route[1].schema
  /\ joiValidationOptions' = route[1].options
  /\ UNCHANGED <<calls, only, served, route, instanceVars>>

NextChain ==
  \/ RegisterChain
  \/ Arrive
  \/ validateBody
  \/ validateCookies
  \/ validateHeaders
  \/ validateParams
  \/ validateQuery
  \/ Dispatch
  \/ RouteHandler
  \/ ErrorHandler
  \/ Respond

SpecChain == InitChain /\ [][NextChain]_vars

(***************************************************************************)
(* A route whose step is a method of a RequestValidator instance.          *)
(***************************************************************************)
\* the requests clients send to such a route: all sections alike
ClassRequests == {r \in Requests : \A s, t \in SectionNames : r[s] = r[t]}

InitClass ==
  /\ Blank
  /\ only = ClassRequests

\* const validator = new RequestValidator(options)
Construct ==
  /\ pc = "unregistered"
  /\ commonValidationOptions = Undefined
  /\ \E options \in OptionOverrides :
       /\ constructedWith' = options
       /\ defaultValidationOptions' = RequestValidator(options).defaultValidationOptions
       /\ commonValidationOptions' = RequestValidator(options).commonValidationOptions
  /\ UNCHANGED <<pc, stepVars, req, trace, calls, only, served, chainVars>>

\* app.get(path, [validator.validateX(schema, options), routeHandler])
MountSection ==
  /\ pc = "unregistered"
  /\ commonValidationOptions # Undefined
  /\ kind' \in SectionNames
  /\ validatorSchema' \in Schemas
  /\ joiValidationOptions' \in OptionOverrides
  /\ pc' = "idle"
  /\ UNCHANGED <<req, trace, calls, only, served, chainVars, instanceVars>>

\* app.get(path, [validator.validateAll(schemas, options), routeHandler])
MountAll ==
  /\ pc = "unregistered"
  /\ commonValidationOptions # Undefined
  /\ kind' = "all"
  /\ validatorSchema' \in SchemaSets
  /\ joiValidationOptions' \in OptionOverrides
  /\ pc' = "idle"
  /\ UNCHANGED <<req, trace, calls, only, served, chainVars, instanceVars>>

\* the instance the handlers close over
This ==
  [defaultValidationOptions |-> defaultValidationOptions,
   commonValidationOptions |-> commonValidationOptions]

RequestValidatorValidateBody ==
  /\ pc = "arrived" /\ kind = "body" /\ commonValidationOptions # Undefined
  /\ Serve(RequestValidatorValidateBodyStep(This, validatorSchema, joiValidationOptions, req))

RequestValidatorValidateCookies ==
  /\ pc = "arrived" /\ kind = "cookies" /\ commonValidationOptions # Undefined
  /\ Serve(RequestValidatorValidateCookiesStep(This, validatorSchema, joiValidationOptions, req))

RequestValidatorValidateQuery ==
  /\ pc = "arrived" /\ kind = "query" /\ commonValidationOptions # Undefined
  /\ Serve(RequestValidatorValidateQueryStep(This, validatorSchema, joiValidationOptions, req))

RequestValidatorValidateParams ==
  /\ pc = "arrived" /\ kind = "params" /\ commonValidationOptions # Undefined
  /\ Serve(RequestValidatorValidateParamsStep(This, validatorSchema, joiValidationOptions, req))

RequestValidatorValidateHeaders ==
  /\ pc = "arrived" /\ kind = "headers" /\ commonValidationOptions # Undefined
  /\ Serve(RequestValidatorValidateHeadersStep(This, validatorSchema, joiValidationOptions, req))

RequestValidatorValidateAll ==
  /\ pc = "arrived" /\ kind = "all" /\ commonValidationOptions # Undefined
  /\ Serve(RequestValidatorValidateAllStep(This, validatorSchema, joiValidationOptions, req))

NextClass ==
  \/ Construct
  \/ MountSection
  \/ MountAll
  \/ Arrive
  \/ RequestValidatorValidateBody
  \/ RequestValidatorValidateCookies
  \/ RequestValidatorValidateQuery
  \/ RequestValidatorValidateParams
  \/ RequestValidatorValidateHeaders
  \/ RequestValidatorValidateAll
  \/ Finish

SpecClass == InitClass /\ [][NextClass]_vars

(***************************************************************************)
(* Vocabulary of the properties.                                           *)
(***************************************************************************)
IsNext(e) == e.type = "next"

IsValidate(e) == e.type = "validate"

\* the calls of next made for the current request
NextCalls == SelectSeq(trace, IsNext)

\* the engine calls made for the current request
EngineCalls == SelectSeq(trace, IsValidate)

\* the handler ran to its end and called next once: what it called next with
Delivered == NextCalls[1].arg

Passed == pc = "returned" /\ Len(NextCalls) = 1 /\ Delivered = Undefined

Failed == pc = "returned" /\ Len(NextCalls) = 1 /\ Delivered # Undefined

\* the sections that have a schema in the registered step
HasSchema(s) == IF kind = "all" THEN s \in DOMAIN validatorSchema ELSE s = kind

SchemaOf(s) == IF kind = "all" THEN validatorSchema[s] ELSE validatorSchema

InScope == {s \in SectionNames : HasSchema(s)}

\* the engine's verdict on section s of the request under the override the
\* route was registered with (the baseline sets no switch that changes a
\* verdict)
EngineFails(s) == validate(SchemaOf(s), req[s], joiValidationOptions).error # Undefined

\* the options section s was evaluated with, when it was evaluated
EvaluatedWith(s) ==
  LET i == CHOOSE j \in 1..Len(EngineCalls) : EngineCalls[j].section = s
  IN EngineCalls[i].options

Evaluated(s) == \E j \in 1..Len(EngineCalls) : EngineCalls[j].section = s

\* the baseline of the options merger, as the specification states it
Baseline == [abortEarly |-> FALSE]

Sets(options, switch, b) ==
  options # Undefined /\ switch \in DOMAIN options /\ options[switch] = b

(***************************************************************************)
(* C1  For every validator, schema and request on which the handler        *)
(* returns: next is called with a MiddlewareError if and only if some      *)
(* section that has a schema fails the engine's evaluation; otherwise next *)
(* is called with no argument.                                             *)
(***************************************************************************)
C1_ErrorIffSomeSectionFails ==
  pc = "returned" =>
    /\ Len(NextCalls) = 1
    /\ Delivered # Undefined <=> (\E s \in InScope : EngineFails(s))
    /\ Delivered # Undefined =>
         /\ DOMAIN Delivered = {"category", "message", "statusCode", "errors"}
         /\ Delivered.category = "validation"

\* validateAll fails a request on one section although another section,
\* which has no schema, holds a value the schema would reject
C1_Witness ==
  /\ Failed
  /\ kind = "all"
  /\ Cardinality(InScope) = 1
  /\ \E s \in SectionNames \ InScope : req[s] = vBad

(***************************************************************************)
(* C2  For every invocation of a pipeline step on which the engine returns *)
(* its verdicts, next is called exactly once, on the passing and on the    *)
(* failing path; it is never called twice.                                 *)
(***************************************************************************)
C2_NextExactlyOnce ==
  /\ Len(NextCalls) <= 1
  /\ pc = "returned" => Len(NextCalls) = 1
  /\ pc = "returned" => IsNext(trace[Len(trace)])

\* the failing path of a section validator: next(error), and no next() after
C2_Witness ==
  /\ Failed
  /\ kind = "body"
  /\ Len(trace) = 2

(***************************************************************************)
(* C3  (as stated) For validateAll, when sections A and B fail, C has a    *)
(* schema and passes and D has no schema: the errors payload has entries   *)
(* for A and B carrying the engine's diagnostics, no failing entry for C,  *)
(* and D is not a key of the payload.                                      *)
(***************************************************************************)
\* the engine's diagnostics for section s of the request
DiagnosticsOf(s) == validate(validatorSchema[s], req[s], EvaluatedWith(s)).error

C3_AbsentSectionIsNoKey ==
  (Failed /\ kind = "all") =>
    \A s \in SectionNames :
      IF s \notin DOMAIN validatorSchema
        THEN s \notin DOMAIN Delivered.errors
      ELSE IF EngineFails(s)
        THEN /\ s \in DOMAIN Delivered.errors
             /\ Delivered.errors[s] = DiagnosticsOf(s)
             /\ Delivered.errors[s] # Undefined
      ELSE s \in DOMAIN Delivered.errors => Delivered.errors[s] = Undefined

(***************************************************************************)
(* C3  (amended) For validateAll, when sections A and B fail, C has a      *)
(* schema and passes and D has no schema: the errors payload has all five  *)
(* section names as keys; A and B map to the engine's diagnostics, and C   *)
(* and D both map to undefined (no error).                                 *)
(***************************************************************************)
C3_AbsentSectionMapsToUndefined ==
  (Failed /\ kind = "all") =>
    /\ DOMAIN Delivered.errors = SectionNames
    /\ \A s \in SectionNames :
         IF s \notin DOMAIN validatorSchema
           THEN Delivered.errors[s] = Undefined
         ELSE IF EngineFails(s)
           THEN /\ Delivered.errors[s] = DiagnosticsOf(s)
                /\ Delivered.errors[s] # Undefined
         ELSE Delivered.errors[s] = Undefined

\* two sections fail, one with a schema passes, one has no schema
C3_Witness ==
  /\ Failed
  /\ kind = "all"
  /\ Cardinality({s \in InScope : EngineFails(s)}) = 2
  /\ \E s \in InScope : ~EngineFails(s)
  /\ \E s \in SectionNames : s \notin InScope /\ req[s] = vBad

(***************************************************************************)
(* C4  When no options override is supplied, every validator calls the     *)
(* engine with abortEarly = false, so a section with two violations yields *)
(* two diagnostic entries.                                                 *)
(***************************************************************************)
C4_DefaultCollectsAllViolations ==
  joiValidationOptions = Undefined =>
    \A i \in 1..Len(EngineCalls) :
      LET e == EngineCalls[i]
      IN ~e.threw =>
           /\ Sets(e.options, "abortEarly", FALSE)
           /\ req[e.section] = vBad => Len(e.arg.details) = 2

(***************************************************************************)
(* C5  For every validator registered with an options override, the        *)
(* options the engine is called with are the baseline {abortEarly: false}  *)
(* with each switch of the override replacing the baseline's and each      *)
(* switch absent from the override left at the baseline's value.           *)
(***************************************************************************)
C5_EngineOptionsAreBaselineThenOverride ==
  joiValidationOptions # Undefined =>
    \A i \in 1..Len(EngineCalls) :
      LET options == EngineCalls[i].options
      IN /\ options # Undefined
         /\ DOMAIN options = {"abortEarly"} \cup DOMAIN joiValidationOptions
         /\ \A k \in DOMAIN options :
              options[k] = IF k \in DOMAIN joiValidationOptions
                             THEN joiValidationOptions[k]
                           ELSE Baseline[k]

(***************************************************************************)
(* C6  For each section validator S, when S's value violates the schema,   *)
(* next is called with a MiddlewareError whose payload has the single key  *)
(* S, mapped to the engine's error for that section.                       *)
(***************************************************************************)
C6_SectionPayloadKeyedBySection ==
  (pc = "returned" /\ kind \in SectionNames /\ EngineFails(kind)) =>
    /\ Failed
    /\ DOMAIN Delivered.errors = {kind}
    /\ Delivered.errors[kind]
         = validate(validatorSchema, req[kind], EvaluatedWith(kind)).error
    /\ Delivered.errors[kind] # Undefined

\* the cookies validator rejects a request whose body is fine
C6_Witness ==
  /\ Failed
  /\ kind = "cookies"
  /\ req.body = vOk
  /\ req.cookies = vBad

(***************************************************************************)
(* C7  Every MiddlewareError carries category "validation", message        *)
(* "Bad Request", statusCode 400 and, as errors, the payload it was built  *)
(* from, whichever and however many sections failed.                       *)
(***************************************************************************)
\* the payload the validator builds for the current request
PayloadBuilt ==
  IF kind = "all"
    THEN [s \in SectionNames |->
            IF s \in DOMAIN validatorSchema THEN DiagnosticsOf(s) ELSE Undefined]
  ELSE [s \in {kind} |-> validate(validatorSchema, req[s], EvaluatedWith(s)).error]

C7_FixedEnvelope ==
  \A i \in 1..Len(NextCalls) :
    NextCalls[i].arg # Undefined =>
      LET error == NextCalls[i].arg
      IN /\ DOMAIN error = {"category", "message", "statusCode", "errors"}
         /\ error.category = "validation"
         /\ error.message = "Bad Request"
         /\ error.statusCode = 400
         /\ error.errors = PayloadBuilt

\* three sections fail at once
C7_Witness ==
  /\ Failed
  /\ kind = "all"
  /\ Cardinality({s \in InScope : EngineFails(s)}) = 3

(***************************************************************************)
(* C8  In validateAll every section of the schema set is evaluated exactly *)
(* once, in the order body, cookies, headers, params, query, and next is   *)
(* not called before all of them are evaluated: a failing section does not *)
(* keep a later one from being evaluated and reported.                     *)
(***************************************************************************)
\* the sections of the schema set, in enumeration order
RECURSIVE InOrder(_, _)
InOrder(i, present) ==
  IF i > 5 THEN <<>>
  ELSE (IF <<"body", "cookies", "headers", "params", "query">>[i] \in present
          THEN << <<"body", "cookies", "headers", "params", "query">>[i] >>
        ELSE <<>>) \o InOrder(i + 1, present)

C8_ExhaustiveInOrder ==
  kind = "all" =>
    /\ \A i, j \in 1..Len(trace) :
         (IsNext(trace[i]) /\ IsValidate(trace[j])) => j < i
    /\ pc = "returned" =>
         /\ [i \in 1..Len(EngineCalls) |-> EngineCalls[i].section]
              = InOrder(1, DOMAIN validatorSchema)
         /\ \A s \in InScope :
              EngineFails(s) <=> (Failed /\ Delivered.errors[s] # Undefined)

\* body fails, and query, the last section, is still evaluated and reported
C8_Witness ==
  /\ Failed
  /\ kind = "all"
  /\ DOMAIN validatorSchema = SectionNames
  /\ Len(EngineCalls) = 5
  /\ EngineCalls[1].arg # Undefined
  /\ EngineCalls[5].section = "query"
  /\ Delivered.errors.query # Undefined

(***************************************************************************)
(* C9  When the engine faults, the fault leaves the pipeline step: no      *)
(* MiddlewareError is built and next is not called, whichever section      *)
(* faults and whatever earlier sections reported.                          *)
(***************************************************************************)
C9_EngineFaultPropagates ==
  /\ pc = "thrown" => Len(NextCalls) = 0
  /\ \A i \in 1..Len(EngineCalls) : EngineCalls[i].threw => pc = "thrown"
  /\ pc \in {"returned", "thrown"} =>
       (pc = "thrown" <=> \E s \in InScope : SchemaOf(s).malformed)

\* validateAll: an earlier section has reported an error when a later faults
C9_Witness ==
  /\ pc = "thrown"
  /\ kind = "all"
  /\ Len(EngineCalls) >= 2
  /\ EngineCalls[1].arg # Undefined
  /\ EngineCalls[Len(EngineCalls)].threw

(***************************************************************************)
(* C10  Without an override a value with a field the schema does not       *)
(* declare is rejected; with the override {allowUnknown: true} the same    *)
(* value, otherwise valid, passes; and allowUnknown reaches the engine as  *)
(* true only when the override sets it.                                    *)
(***************************************************************************)
C10_UnknownFieldsRejectedByDefault ==
  /\ (pc = "returned" /\ joiValidationOptions = Undefined
        /\ \E s \in InScope : req[s] = vExtra)
       => Failed
  /\ (pc = "returned" /\ joiValidationOptions = [allowUnknown |-> TRUE]
        /\ \A s \in InScope : req[s] \in {vOk, vExtra})
       => Passed
  /\ \A i \in 1..Len(EngineCalls) :
       Sets(EngineCalls[i].options, "allowUnknown", TRUE)
         => Sets(joiValidationOptions, "allowUnknown", TRUE)

\* the query validator lets an undeclared field through under the override
C10_Witness ==
  /\ Passed
  /\ kind = "query"
  /\ joiValidationOptions = [allowUnknown |-> TRUE]
  /\ req.query = vExtra

(***************************************************************************)
(* C11  Validation never modifies the request: when a validator's handler  *)
(* runs, on the pass and on the fail path, the five sections of req are    *)
(* left as they were (the engine's converted value is not written back),   *)
(* and so are the schema / schema set and the options override.            *)
(***************************************************************************)
C11_RequestAndRegistrationUntouched ==
  [][pc = "arrived" =>
       /\ req' = req
       /\ validatorSchema' = validatorSchema
       /\ joiValidationOptions' = joiValidationOptions]_vars

\* the query validator passed a query whose page the engine converted to a
\* number, and req.query still holds the string
C11_Witness ==
  /\ Passed
  /\ kind = "query"
  /\ req.query = vOk
  /\ validate(validatorSchema, req.query, joiValidationOptions).value # req.query
  /\ req.query.page = Str(1)

(***************************************************************************)
(* Vocabulary of the claims about requests that recur and overlap.         *)
(***************************************************************************)
Outcome(request, state, events) == [req |-> request, pc |-> state, trace |-> events]

\* the outcomes of the requests the registered step has handled so far
Outcomes ==
  {Outcome(served[i].req, served[i].pc, served[i].trace) : i \in 1..Len(served)}
    \cup (IF pc \in {"returned", "thrown"} THEN {Outcome(req, pc, trace)} ELSE {})

\* what the handler called next with for outcome o
DeliveredIn(o) == SelectSeq(o.trace, IsNext)[1].arg

FailedIn(o) == o.pc = "returned" /\ DeliveredIn(o) # Undefined

(***************************************************************************)
(* C12  Idempotence: whenever the registered pipeline step has handled the *)
(* same request value more than once, with or without other requests in    *)
(* between, all those invocations ended the same way, with the same        *)
(* verdict and the same payload; and no step taken once the validator is   *)
(* registered changes the validator (its schema and its options).          *)
(***************************************************************************)
SameRequestSameOutcome == \A a, b \in Outcomes : a.req = b.req => a = b

C14_AbsentSchemaNeverContributes ==
  /\ \A o \in Outcomes :
       /\ \A i \in 1..Len(o.trace) :
            IsValidate(o.trace[i]) => o.trace[i].section \in InScope
       /\ FailedIn(o) =>
            \A s \in DOMAIN DeliveredIn(o).errors :
              DeliveredIn(o).errors[s] # Undefined => s \in InScope
  /\ \A a, b \in Outcomes :
       (\A s \in InScope : a.req[s] = b.req[s]) => (a.pc = b.pc /\ a.trace = b.trace)

\* validateAll without a schema for query failed a request whose query is
\* invalid just as it failed the one whose query is valid
C14_Witness ==
  /\ kind = "all"
  /\ "query" \notin DOMAIN validatorSchema
  /\ "body" \in DOMAIN validatorSchema
  /\ pc = "returned"
  /\ req.query = vBad
  /\ Len(served) >= 1
  /\ served[1].req.query = vOk
  /\ served[1].req.body = req.body
  /\ served[1].trace = trace
  /\ Failed

(***************************************************************************)
(* C15  Requests in flight through the same validator do not interfere:    *)
(* a step of a handler changes neither the validator nor the outcome of    *)
(* any other request; a request handled while others were in flight ends   *)
(* as the same request handled with none in flight; and the payload of     *)
(* every failing request holds the engine's diagnostics of that request's  *)
(* own sections.                                                           *)
(***************************************************************************)
InterleavedAsAlone ==
  \A i, j \in 1..Len(served) :
    (served[i].req = served[j].req /\ served[i].alone /\ ~served[j].alone) =>
      (served[i].pc = served[j].pc /\ served[i].trace = served[j].trace)

\* the options the engine was called with for section s in outcome o
OptionsIn(o, s) ==
  LET i == CHOOSE j \in 1..Len(o.trace) :
             IsValidate(o.trace[j]) /\ o.trace[j].section = s
  IN o.trace[i].options

OwnPayload ==
  \A o \in Outcomes :
    FailedIn(o) =>
      \A s \in InScope :
        DeliveredIn(o).errors[s] = validate(SchemaOf(s), o.req[s], OptionsIn(o, s)).error

IsSectionError(x) == x # Undefined /\ DOMAIN x = {"details"} /\ x.details # <<>>

\* the diagnostics of the engine call made for the one section of a
\* section validator
RawDiagnostics == EngineCalls[1].arg

C16_SingleSectionErrorsIsRawDiagnostics ==
  Failed =>
    IF kind \in SectionNames
      THEN Delivered.errors = RawDiagnostics
    ELSE \A s \in DOMAIN Delivered.errors :
           s \in SectionNames
             /\ (Delivered.errors[s] = Undefined \/ IsSectionError(Delivered.errors[s]))

(***************************************************************************)
(* C16  (amended) The errors field of the MiddlewareError is a mapping     *)
(* from section name to diagnostics for both validator kinds, and differs  *)
(* in its keys: for a single-section validator it has exactly one key, the *)
(* section, whose value is the raw diagnostics (the field itself is not    *)
(* the diagnostics); for validateAll it has all five section names, each   *)
(* mapped to diagnostics or to undefined.                                  *)
(***************************************************************************)
C16_ErrorsIsMappingForBothKinds ==
  Failed =>
    /\ ~IsSectionError(Delivered.errors)
    /\ \A s \in DOMAIN Delivered.errors :
         s \in SectionNames
           /\ (Delivered.errors[s] = Undefined \/ IsSectionError(Delivered.errors[s]))
    /\ IF kind \in SectionNames
         THEN /\ Cardinality(DOMAIN Delivered.errors) = 1
              /\ \A s \in DOMAIN Delivered.errors : Delivered.errors[s] = RawDiagnostics
       ELSE Cardinality(DOMAIN Delivered.errors) = Cardinality(SectionNames)

\* the body validator rejects a body with an unknown field
C16_Witness ==
  /\ Failed
  /\ kind = "body"
  /\ req.body = vExtra
  /\ IsSectionError(RawDiagnostics)
  /\ "body" \in DOMAIN Delivered.errors

(***************************************************************************)
(* C17  In the class RequestValidator, for each of the six methods, the    *)
(* options of every engine call are three layers merged switch by switch:  *)
(* a switch the factory's options set has that value; else a switch the    *)
(* constructor's options set has that value; else abortEarly is false and  *)
(* no other switch is set.  The default record of the instance stays       *)
(* {abortEarly: false} and its constructor-time record stays the default   *)
(* overridden by the constructor's options.                                *)
(***************************************************************************)
Switches == {"abortEarly", "allowUnknown"}

\* the layers that set switch k, the strongest first
LayersSetting(k) ==
  SelectSeq(<<joiValidationOptions, constructedWith, [abortEarly |-> FALSE]>>,
            LAMBDA layer : layer # Undefined /\ k \in DOMAIN layer)

ThreeLayered(options) ==
  /\ DOMAIN options \subseteq Switches
  /\ \A k \in Switches :
       IF LayersSetting(k) = <<>> THEN k \notin DOMAIN options
       ELSE k \in DOMAIN options /\ options[k] = LayersSetting(k)[1][k]

C17_ThreeLayeredPrecedence ==
  commonValidationOptions # Undefined =>
    /\ \A i \in 1..Len(EngineCalls) : ThreeLayered(EngineCalls[i].options)
    /\ pc = "returned" => Len(EngineCalls) = Cardinality(InScope)
    /\ defaultValidationOptions = [abortEarly |-> FALSE]
    /\ DOMAIN commonValidationOptions \subseteq Switches
    /\ \A k \in Switches :
         IF constructedWith # Undefined /\ k \in DOMAIN constructedWith
           THEN k \in DOMAIN commonValidationOptions
                  /\ commonValidationOptions[k] = constructedWith[k]
         ELSE IF k = "abortEarly"
           THEN k \in DOMAIN commonValidationOptions /\ ~commonValidationOptions[k]
         ELSE k \notin DOMAIN commonValidationOptions

\* validateAll of an instance constructed with allowUnknown, mounted with
\* abortEarly, rejects a request: all three layers show in the options
C17_Witness ==
  /\ Failed
  /\ kind = "all"
  /\ commonValidationOptions = [abortEarly |-> FALSE, allowUnknown |-> TRUE]
  /\ joiValidationOptions = [abortEarly |-> TRUE]
  /\ Len(EngineCalls) >= 2
  /\ \A i \in 1..Len(EngineCalls) :
       EngineCalls[i].options = [abortEarly |-> TRUE, allowUnknown |-> TRUE]

(***************************************************************************)
(* C13  Section validators registered in a row: the engine is called for   *)
(* the sections in the order of registration; once a validator fails (or   *)
(* throws), no later validator is evaluated and the route handler does not *)
(* run, and the error delivered carries only the section of that           *)
(* validator, the first one the request fails; the route handler runs only *)
(* when every validator of the route passed the request.                   *)
(***************************************************************************)
\* the engine's verdict of the i-th validator of the route on the request
StepFails(i) ==
  LET result == validate(route[i].schema, req[route[i].kind],
                         Spread(commonValidatorOptions, route[i].options))
  IN result.threw \/ result.error # Undefined

\* the positions in the trace where a step reported a failure
FailurePoints ==
  {i \in 1..Len(trace) :
     \/ trace[i].type = "next" /\ trace[i].arg # Undefined
     \/ trace[i].type = "validate" /\ trace[i].threw}

C13_OrderedShortCircuit ==
  route # <<>> =>
    /\ Len(EngineCalls) <= Len(route)
    /\ \A i \in 1..Len(EngineCalls) : EngineCalls[i].section = route[i].kind
    /\ \A p \in FailurePoints :
         /\ \A i \in (p + 1)..Len(trace) : trace[i].type \notin {"validate", "handler"}
         /\ Len(SelectSeq(SubSeq(trace, 1, p), IsValidate)) = at
         /\ StepFails(at)
         /\ \A j \in 1..(at - 1) : ~StepFails(j)
         /\ trace[p].type = "next" =>
              /\ DOMAIN trace[p].arg.errors = {route[at].kind}
              /\ trace[p].arg.errors[route[at].kind] # Undefined
    /\ pc = "handled" =>
         /\ Len(EngineCalls) = Len(route)
         /\ \A j \in 1..Len(route) : ~StepFails(j)
    /\ pc = "failed" => FailurePoints # {}

\* the first validator passed, the second failed, and the error handler ran
C13_Witness ==
  /\ pc = "failed"
  /\ Len(route) = 2
  /\ at = 2
  /\ route[1].kind = "headers" /\ route[2].kind = "body"
  /\ req.query = vBad
  /\ ~StepFails(1)
  /\ trace[Len(trace)].arg # Undefined
  /\ DOMAIN trace[Len(trace)].arg.errors = {"body"}

====
